---- MODULE Spec2Model ----
(***************************************************************************)
(* The Windows mutex / reader-writer lock of library/std/src/sys/windows   *)
(* (mutex.rs, rwlock.rs) and the symbol resolver of                        *)
(* src/libstd/sys/windows/compat.rs, as state machines.                    *)
(*                                                                         *)
(* Specifications:                                                         *)
(*   Spec        the emulated back-end (ReentrantRWLock) used by callers   *)
(*               that only release what they hold                          *)
(*   SpecViol    the same, with callers that also release what they do     *)
(*               not hold                                                  *)
(*   SpecSteps   the emulated back-end with read_unlock / write_unlock     *)
(*               taken one field access at a time                          *)
(*   SpecMutex   Mutex (both back-ends) guarding a shared counter          *)
(*   SpecLive    Mutex (both back-ends) under fair scheduling              *)
(*   SpecInstall RWLock::rerwlock, the lazy install of the control block   *)
(*   SpecCompat  compat_fn!: one symbol, one cache slot                    *)
(*   SpecGroup   compat_group!: a group of slots behind one loader         *)
(***************************************************************************)
EXTENDS Integers, Sequences, FiniteSets, TLC

\* ------------------------------------------------------------------ bounds
NThreads == 3
MaxReads == 2
MaxIncs == 2
MaxCalls == 2
MaxViol == 1
NViolThreads == 2
NCallers == 2
MaxResolverCalls == 3
NSyms == 2

Threads == 1 .. NThreads
\* The addresses the allocator hands out for control blocks.
Blocks == 1 .. NThreads
\* The threads that call wrapped functions.
Callers == 1 .. NCallers
\* The symbols wrapped by compat_fn! / grouped by compat_group!.
Syms == 1 .. NSyms
\* Distinct non-zero addresses: the OS entry point of a symbol, the fallback
\* routine the macro generates for it, and its trampoline.
RealAddr(s) == s
FallbackAddr(s) == NSyms + s
TrampAddr(s) == 2 * NSyms + s

\* --------------------------------------------------------------- constants
\* CRITICAL_SECTION owner field: no owning thread.
NoThread == 0
\* CRITICAL_SECTION damaged by a LeaveCriticalSection of a non-owner.
Wedged == -1
\* The idle value of the state cell (SRWLOCK_INIT, and "no block yet").
SRWLOCK_INIT == 0
\* The state cell of an SRW lock that is held exclusively.
SrwExclusive == 1
\* Symbol cache slot: not yet resolved; also GetProcAddress's "not found".
Unresolved == 0

\* Recursion depth the callers of this model may drive the critical section to.
DepthCap == MaxReads + 3

VARIABLES
    kind,          \* kind(): "SRWLock" or "CriticalSection"
    inner,         \* RWLock.inner, the state cell
    cs_owner,      \* ReentrantMutex: owning thread of the CRITICAL_SECTION
    cs_depth,      \* ReentrantMutex: recursion count of the CRITICAL_SECTION
    reader_count,  \* ReentrantRWLock.reader_count
    write_held,    \* ReentrantRWLock.write_held
    pc,            \* per thread: "idle", "read_wait", "write_wait", "panicked"
    op,            \* per thread: the operation last called
    ret,           \* per thread: "true"/"false" returned by the last try- operation, else "none"
    msg,           \* per thread: the panic message, "" if none
    holdsRead,     \* per thread: read locks acquired and not yet released (caller's view)
    holdsWrite,    \* per thread: write lock acquired and not yet released (caller's view)
    counter,       \* the shared counter the mutex guards
    tmp,           \* per thread: the counter value read, -1 when not incrementing
    done,          \* per thread: increments completed
    violations,    \* releases of a lock the caller did not hold, so far
    ru_val,        \* per thread, in read_unlock: the reader count it loaded
    heap,          \* per block address: "fresh", "live" (a boxed ReentrantRWLock), "freed"
    rr_pc,         \* per thread, in rerwlock: "idle", "alloc" or "cas"
    rr_m,          \* per thread, in rerwlock: m, the block it allocated (0: none)
    rr_ret,        \* per thread: what its last rerwlock returned (0: nothing yet)
    rr_calls,      \* per thread: calls of rerwlock so far
    exported,      \* the symbols the OS module exports
    PTR,           \* compat_fn!: per symbol, the cache slot
    stores,        \* per symbol: stores made to its cache slot so far
    c_pc,          \* per thread, in a compat_fn! wrapper: "idle", "load", "call"
    c_sym,         \* per thread: the wrapped symbol it is calling
    c_addr,        \* per thread: addr
    c_calls,       \* calls of wrappers so far, all threads
    c_ran,         \* per thread: the routine its last call ran
    gstatic,       \* compat_group!: per symbol, the slot of $gstatic
    g_pc,          \* per thread: "idle", "invoke", "lookup", "store", "redispatch"
    g_sym,         \* per thread: the group member it is calling
    g_addr,        \* per thread: addr, loaded from its slot
    g_i,           \* per thread, in $gload: the symbol it looks up or stores next
    g_funcs,       \* per thread, in $gload: funcs
    g_src,         \* per thread, in store_funcs: "funcs" or "FALLBACKS"
    g_calls,       \* calls of group members so far, all threads
    g_ran          \* per thread: the routine its last call ran

lockVars == <<cs_owner, cs_depth, reader_count, write_held>>
callVars == <<pc, op, ret, msg>>
holdVars == <<holdsRead, holdsWrite>>
ctrVars == <<counter, tmp, done>>
instVars == <<heap, rr_pc, rr_m, rr_ret, rr_calls>>
compatVars == <<exported, PTR, stores, c_pc, c_sym, c_addr, c_calls, c_ran>>
groupVars == <<gstatic, g_pc, g_sym, g_addr, g_i, g_funcs, g_src, g_calls, g_ran>>
resolverVars == <<compatVars, groupVars>>

MsgReadAfterWrite == "tried to acquire read lock after acquiring write lock"
MsgWriteAfterWrite == "tried to acquire write lock on already acquired write lock"
MsgNoReaders == "tried to unlock reader lock with no readers"
MsgNoWriter == "tried to unlock write lock with no writer"

\* -------------------------------------------------- symbol resolver (compat.rs)

\* lookup: GetProcAddress as usize, 0 => None, n => Some(n).
lookup(s) == IF s \in exported THEN RealAddr(s) ELSE Unresolved

\* lookup(module, symbol).unwrap_or(fallback)
unwrap_or(found, fallback) == IF found # Unresolved THEN found ELSE fallback

\* The routine an address points to.
Routine(addr) ==
    IF addr \in {RealAddr(s) : s \in Syms} THEN "real"
    ELSE IF addr \in {FallbackAddr(s) : s \in Syms} THEN "fallback"
    ELSE IF addr \in {TrampAddr(s) : s \in Syms} THEN "trampoline"
    ELSE "wild"

\* Mutant of the wrapper: load() is called whatever PTR.load returned.
compat_fn_load_always(t, s) ==
    /\ c_pc[t] = "idle"
    /\ c_calls < MaxResolverCalls
    /\ c_calls' = c_calls + 1
    /\ c_sym' = [c_sym EXCEPT ![t] = s]
    /\ c_addr' = [c_addr EXCEPT ![t] = PTR[s]]
    /\ c_pc' = [c_pc EXCEPT ![t] = "load"]
    /\ UNCHANGED <<exported, PTR, stores, c_ran>>
    /\ UNCHANGED <<kind, ru_val, inner, lockVars, callVars, holdVars, ctrVars, violations, instVars, groupVars>>

\* The wrapper generated by compat_fn! for symbol s: PTR.load.
compat_fn_load(t, s) ==
    /\ c_pc[t] = "idle"
    /\ c_calls < MaxResolverCalls
    /\ c_calls' = c_calls + 1
    /\ c_sym' = [c_sym EXCEPT ![t] = s]
    /\ c_addr' = [c_addr EXCEPT ![t] = PTR[s]]
    /\ c_pc' = [c_pc EXCEPT ![t] = IF PTR[s] = Unresolved THEN "load" ELSE "call"]
    /\ UNCHANGED <<exported, PTR, stores, c_ran>>
    /\ UNCHANGED <<kind, ru_val, inner, lockVars, callVars, holdVars, ctrVars, violations, instVars, groupVars>>

\* Mutant of store_func: ptr.fetch_add(value) in place of ptr.store(value).
store_func_fetch_add(t) ==
    /\ c_pc[t] = "load"
    /\ LET value == unwrap_or(lookup(c_sym[t]), FallbackAddr(c_sym[t]))
       IN /\ PTR' = [PTR EXCEPT ![c_sym[t]] = @ + value]
          /\ c_addr' = [c_addr EXCEPT ![t] = value]
    /\ stores' = [stores EXCEPT ![c_sym[t]] = @ + 1]
    /\ c_pc' = [c_pc EXCEPT ![t] = "call"]
    /\ UNCHANGED <<exported, c_sym, c_calls, c_ran>>
    /\ UNCHANGED <<kind, ru_val, inner, lockVars, callVars, holdVars, ctrVars, violations, instVars, groupVars>>

\* load(): store_func(&PTR, module, symbol, fallback as usize).
store_func(t) ==
    /\ c_pc[t] = "load"
    /\ LET value == unwrap_or(lookup(c_sym[t]), FallbackAddr(c_sym[t]))
       IN /\ PTR' = [PTR EXCEPT ![c_sym[t]] = value]
          /\ c_addr' = [c_addr EXCEPT ![t] = value]
    /\ stores' = [stores EXCEPT ![c_sym[t]] = @ + 1]
    /\ c_pc' = [c_pc EXCEPT ![t] = "call"]
    /\ UNCHANGED <<exported, c_sym, c_calls, c_ran>>
    /\ UNCHANGED <<kind, ru_val, inner, lockVars, callVars, holdVars, ctrVars, violations, instVars, groupVars>>

\* mem::transmute::<usize, F>(addr)(args): the routine at addr runs.
compat_fn_call(t) ==
    /\ c_pc[t] = "call"
    /\ c_ran' = [c_ran EXCEPT ![t] = Routine(c_addr[t])]
    /\ c_addr' = [c_addr EXCEPT ![t] = 0]
    /\ c_pc' = [c_pc EXCEPT ![t] = "idle"]
    /\ UNCHANGED <<exported, PTR, stores, c_sym, c_calls>>
    /\ UNCHANGED <<kind, ru_val, inner, lockVars, callVars, holdVars, ctrVars, violations, instVars, groupVars>>

\* The call-through wrapper compat_group! generates for member s:
\* $gstatic.$symbol.load.
group_call(t, s) ==
    /\ g_pc[t] = "idle"
    /\ g_calls < MaxResolverCalls
    /\ g_calls' = g_calls + 1
    /\ g_sym' = [g_sym EXCEPT ![t] = s]
    /\ g_addr' = [g_addr EXCEPT ![t] = gstatic[s]]
    /\ g_pc' = [g_pc EXCEPT ![t] = "invoke"]
    /\ UNCHANGED <<gstatic, g_i, g_funcs, g_src, g_ran>>
    /\ UNCHANGED <<kind, ru_val, inner, lockVars, callVars, holdVars, ctrVars, violations, instVars, compatVars>>

\* mem::transmute::<*mut (), F>(addr)(args): an entry point or a fallback runs
\* and returns; the trampoline enters $gload with funcs all null.
group_invoke(t) ==
    /\ g_pc[t] = "invoke"
    /\ IF Routine(g_addr[t]) = "trampoline"
       THEN /\ g_pc' = [g_pc EXCEPT ![t] = "lookup"]
            /\ g_i' = [g_i EXCEPT ![t] = 1]
            /\ g_funcs' = [g_funcs EXCEPT ![t] = [s \in Syms |-> 0]]
            /\ UNCHANGED g_ran
            /\ UNCHANGED g_addr
       ELSE /\ g_ran' = [g_ran EXCEPT ![t] = Routine(g_addr[t])]
            /\ g_addr' = [g_addr EXCEPT ![t] = 0]
            /\ g_pc' = [g_pc EXCEPT ![t] = "idle"]
            /\ UNCHANGED <<g_i, g_funcs>>
    /\ UNCHANGED <<gstatic, g_sym, g_src, g_calls>>
    /\ UNCHANGED <<kind, ru_val, inner, lockVars, callVars, holdVars, ctrVars, violations, instVars, compatVars>>

\* Mutant of $gload: Some(addr) is stored straight into the member's slot of
\* $gstatic as well as into the local funcs.
gload_lookup_direct(t) ==
    /\ g_pc[t] = "lookup"
    /\ LET i == g_i[t]
           addr == lookup(i)
       IN IF addr # Unresolved
          THEN /\ gstatic' = [gstatic EXCEPT ![i] = addr]
               /\ g_funcs' = [g_funcs EXCEPT ![t][i] = addr]
               /\ IF i = NSyms
                  THEN /\ g_pc' = [g_pc EXCEPT ![t] = "store"]
                       /\ g_src' = [g_src EXCEPT ![t] = "funcs"]
                       /\ g_i' = [g_i EXCEPT ![t] = 1]
                  ELSE /\ g_i' = [g_i EXCEPT ![t] = i + 1]
                       /\ UNCHANGED <<g_pc, g_src>>
          ELSE /\ g_pc' = [g_pc EXCEPT ![t] = "store"]
               /\ g_src' = [g_src EXCEPT ![t] = "FALLBACKS"]
               /\ g_i' = [g_i EXCEPT ![t] = 1]
               /\ UNCHANGED <<g_funcs, gstatic>>
    /\ UNCHANGED <<g_sym, g_addr, g_calls, g_ran>>
    /\ UNCHANGED <<kind, ru_val, inner, lockVars, callVars, holdVars, ctrVars, violations, instVars, compatVars>>

\* $gload, one round of its lookup sequence: Some(addr) goes to funcs, None
\* turns to store_funcs(&FALLBACKS); after the last symbol, store_funcs(&funcs).
gload_lookup(t) ==
    /\ g_pc[t] = "lookup"
    /\ LET i == g_i[t]
           addr == lookup(i)
       IN IF addr # Unresolved
          THEN /\ g_funcs' = [g_funcs EXCEPT ![t][i] = addr]
               /\ IF i = NSyms
                  THEN /\ g_pc' = [g_pc EXCEPT ![t] = "store"]
                       /\ g_src' = [g_src EXCEPT ![t] = "funcs"]
                       /\ g_i' = [g_i EXCEPT ![t] = 1]
                  ELSE /\ g_i' = [g_i EXCEPT ![t] = i + 1]
                       /\ UNCHANGED <<g_pc, g_src>>
          ELSE /\ g_pc' = [g_pc EXCEPT ![t] = "store"]
               /\ g_src' = [g_src EXCEPT ![t] = "FALLBACKS"]
               /\ g_i' = [g_i EXCEPT ![t] = 1]
               /\ UNCHANGED g_funcs
    /\ UNCHANGED <<gstatic, g_sym, g_addr, g_calls, g_ran>>
    /\ UNCHANGED <<kind, ru_val, inner, lockVars, callVars, holdVars, ctrVars, violations, instVars, compatVars>>

\* Mutant of store_funcs: it returns after the store to the first slot.
store_funcs_first_only(t) ==
    /\ g_pc[t] = "store"
    /\ LET j == g_i[t]
       IN /\ gstatic' = [gstatic EXCEPT ![j] =
                            IF g_src[t] = "FALLBACKS" THEN FallbackAddr(j) ELSE g_funcs[t][j]]
          /\ g_pc' = [g_pc EXCEPT ![t] = "redispatch"]
          /\ g_i' = [g_i EXCEPT ![t] = 1]
          /\ g_funcs' = [g_funcs EXCEPT ![t] = [s \in Syms |-> 0]]
          /\ g_src' = [g_src EXCEPT ![t] = "funcs"]
    /\ UNCHANGED <<g_sym, g_addr, g_calls, g_ran>>
    /\ UNCHANGED <<kind, ru_val, inner, lockVars, callVars, holdVars, ctrVars, violations, instVars, compatVars>>

\* store_funcs, one slot: $gstatic.$symbol.store(funcs.$symbol.load()); after
\* the last slot $gload returns to the trampoline.
store_funcs(t) ==
    /\ g_pc[t] = "store"
    /\ LET j == g_i[t]
       IN /\ gstatic' = [gstatic EXCEPT ![j] =
                            IF g_src[t] = "FALLBACKS" THEN FallbackAddr(j) ELSE g_funcs[t][j]]
          /\ IF j = NSyms
             THEN \* $gload returns: its locals are gone
                  /\ g_pc' = [g_pc EXCEPT ![t] = "redispatch"]
                  /\ g_i' = [g_i EXCEPT ![t] = 1]
                  /\ g_funcs' = [g_funcs EXCEPT ![t] = [s \in Syms |-> 0]]
                  /\ g_src' = [g_src EXCEPT ![t] = "funcs"]
             ELSE /\ g_i' = [g_i EXCEPT ![t] = j + 1]
                  /\ UNCHANGED <<g_pc, g_funcs, g_src>>
    /\ UNCHANGED <<g_sym, g_addr, g_calls, g_ran>>
    /\ UNCHANGED <<kind, ru_val, inner, lockVars, callVars, holdVars, ctrVars, violations, instVars, compatVars>>

\* The trampoline after $gload(): $symbol(args), the wrapper again, which
\* loads the member's own slot.
group_redispatch(t) ==
    /\ g_pc[t] = "redispatch"
    /\ g_addr' = [g_addr EXCEPT ![t] = gstatic[g_sym[t]]]
    /\ g_pc' = [g_pc EXCEPT ![t] = "invoke"]
    /\ UNCHANGED <<gstatic, g_sym, g_i, g_funcs, g_src, g_calls, g_ran>>
    /\ UNCHANGED <<kind, ru_val, inner, lockVars, callVars, holdVars, ctrVars, violations, instVars, compatVars>>

\* ------------------------------------------------- ReentrantMutex (mutex.rs)

\* TryEnterCriticalSection(...) != 0: the section is free or owned by the caller.
try_lock(t) == cs_owner \in {NoThread, t}

\* The effect of entering: EnterCriticalSection once it is granted.
lock(t) ==
    /\ try_lock(t)
    /\ cs_owner' = t
    /\ cs_depth' = cs_depth + 1

\* LeaveCriticalSection. By the owner: one recursion level less, free at zero.
\* By a thread that does not own the section the OS leaves the outcome open:
\* nothing happens, the owner loses one level, or the section is damaged and
\* nobody enters it again.
unlock(t) ==
    IF cs_owner = t /\ cs_depth > 0
    THEN /\ cs_depth' = cs_depth - 1
         /\ cs_owner' = IF cs_depth = 1 THEN NoThread ELSE t
    ELSE IF cs_owner = Wedged
    THEN UNCHANGED <<cs_owner, cs_depth>>
    ELSE \/ UNCHANGED <<cs_owner, cs_depth>>
         \/ /\ cs_depth > 0
            /\ cs_depth' = cs_depth - 1
            /\ cs_owner' = IF cs_depth = 1 THEN NoThread ELSE cs_owner
         \/ /\ cs_owner' = Wedged
            /\ cs_depth' = cs_depth

\* ------------------------------------------------ ReentrantRWLock (rwlock.rs)

Panic(t, text) ==
    /\ pc' = [pc EXCEPT ![t] = "panicked"]
    /\ msg' = [msg EXCEPT ![t] = text]

Return(t, r) ==
    /\ pc' = [pc EXCEPT ![t] = "idle"]
    /\ ret' = [ret EXCEPT ![t] = r]

\* A thread calls read: it is now inside inner.lock().
read_call(t) ==
    /\ pc[t] = "idle"
    /\ holdsRead[t] < MaxReads
    /\ cs_depth < DepthCap
    /\ pc' = [pc EXCEPT ![t] = "read_wait"]
    /\ op' = [op EXCEPT ![t] = "read"]
    /\ ret' = [ret EXCEPT ![t] = "none"]
    /\ UNCHANGED <<kind, ru_val, inner, lockVars, msg, holdVars, ctrVars, violations, instVars, resolverVars>>

\* Mutant of read: the inner mutex is released once the reader count is
\* incremented.
read_releases_gate(t) ==
    /\ pc[t] = "read_wait"
    /\ try_lock(t)
    /\ IF write_held
       THEN /\ UNCHANGED <<lockVars, holdVars>>
            /\ Panic(t, MsgReadAfterWrite)
            /\ UNCHANGED ret
       ELSE /\ UNCHANGED <<cs_owner, cs_depth>>
            /\ reader_count' = reader_count + 1
            /\ holdsRead' = [holdsRead EXCEPT ![t] = @ + 1]
            /\ Return(t, "none")
            /\ UNCHANGED <<write_held, holdsWrite, msg>>
    /\ UNCHANGED <<kind, ru_val, inner, op, ctrVars, violations, instVars, resolverVars>>

\* read, from the return of inner.lock() on.
read(t) ==
    /\ pc[t] = "read_wait"
    /\ try_lock(t)
    /\ IF write_held
       THEN \* lock(); unlock(); panic!
            /\ UNCHANGED <<lockVars, holdVars>>
            /\ Panic(t, MsgReadAfterWrite)
            /\ UNCHANGED ret
       ELSE /\ lock(t)
            /\ reader_count' = reader_count + 1
            /\ holdsRead' = [holdsRead EXCEPT ![t] = @ + 1]
            /\ Return(t, "none")
            /\ UNCHANGED <<write_held, holdsWrite, msg>>
    /\ UNCHANGED <<kind, ru_val, inner, op, ctrVars, violations, instVars, resolverVars>>

\* Mutant of try_read: the write_held arm answers false without releasing
\* the inner mutex.
try_read_leaks_gate(t) ==
    /\ pc[t] = "idle"
    /\ holdsRead[t] < MaxReads
    /\ cs_depth < DepthCap
    /\ op' = [op EXCEPT ![t] = "try_read"]
    /\ IF ~try_lock(t)
       THEN /\ Return(t, "false")
            /\ UNCHANGED <<lockVars, holdVars>>
       ELSE IF write_held
       THEN /\ lock(t)
            /\ Return(t, "false")
            /\ UNCHANGED <<reader_count, write_held, holdVars>>
       ELSE /\ lock(t)
            /\ reader_count' = reader_count + 1
            /\ holdsRead' = [holdsRead EXCEPT ![t] = @ + 1]
            /\ Return(t, "true")
            /\ UNCHANGED <<write_held, holdsWrite>>
    /\ UNCHANGED <<kind, ru_val, inner, msg, ctrVars, violations, instVars, resolverVars>>

\* Mutant of try_read: the test of write_held is missing.
try_read_unchecked(t) ==
    /\ pc[t] = "idle"
    /\ holdsRead[t] < MaxReads
    /\ cs_depth < DepthCap
    /\ op' = [op EXCEPT ![t] = "try_read"]
    /\ IF ~try_lock(t)
       THEN /\ Return(t, "false")
            /\ UNCHANGED <<lockVars, holdVars>>
       ELSE /\ lock(t)
            /\ reader_count' = reader_count + 1
            /\ holdsRead' = [holdsRead EXCEPT ![t] = @ + 1]
            /\ Return(t, "true")
            /\ UNCHANGED <<write_held, holdsWrite>>
    /\ UNCHANGED <<kind, ru_val, inner, msg, ctrVars, violations, instVars, resolverVars>>

try_read(t) ==
    /\ pc[t] = "idle"
    /\ holdsRead[t] < MaxReads
    /\ cs_depth < DepthCap
    /\ op' = [op EXCEPT ![t] = "try_read"]
    /\ IF ~try_lock(t)
       THEN /\ Return(t, "false")
            /\ UNCHANGED <<lockVars, holdVars>>
       ELSE IF write_held
       THEN \* try_lock(); unlock(); false
            /\ Return(t, "false")
            /\ UNCHANGED <<lockVars, holdVars>>
       ELSE /\ lock(t)
            /\ reader_count' = reader_count + 1
            /\ holdsRead' = [holdsRead EXCEPT ![t] = @ + 1]
            /\ Return(t, "true")
            /\ UNCHANGED <<write_held, holdsWrite>>
    /\ UNCHANGED <<kind, ru_val, inner, msg, ctrVars, violations, instVars, resolverVars>>

\* A thread calls write: it is now inside inner.lock() (or AcquireSRWLockExclusive).
write_call(t) ==
    /\ pc[t] = "idle"
    /\ tmp[t] = -1
    /\ cs_depth < DepthCap
    /\ pc' = [pc EXCEPT ![t] = "write_wait"]
    /\ op' = [op EXCEPT ![t] = "write"]
    /\ ret' = [ret EXCEPT ![t] = "none"]
    /\ UNCHANGED <<kind, ru_val, inner, lockVars, msg, holdVars, ctrVars, violations, instVars, resolverVars>>

\* Mutant of write: the inner mutex is released once write_held is set.
write_releases_gate(t) ==
    /\ pc[t] = "write_wait"
    /\ try_lock(t)
    /\ IF write_held
       THEN /\ UNCHANGED <<lockVars, holdVars>>
            /\ Panic(t, MsgWriteAfterWrite)
            /\ UNCHANGED ret
       ELSE /\ UNCHANGED <<cs_owner, cs_depth>>
            /\ write_held' = TRUE
            /\ holdsWrite' = [holdsWrite EXCEPT ![t] = TRUE]
            /\ Return(t, "none")
            /\ UNCHANGED <<reader_count, holdsRead, msg>>
    /\ UNCHANGED <<kind, ru_val, inner, op, ctrVars, violations, instVars, resolverVars>>

\* Mutant of write: the test of write_held is missing, so the owner of the
\* critical section enters again.
write_unchecked(t) ==
    /\ pc[t] = "write_wait"
    /\ try_lock(t)
    /\ lock(t)
    /\ write_held' = TRUE
    /\ holdsWrite' = [holdsWrite EXCEPT ![t] = TRUE]
    /\ Return(t, "none")
    /\ UNCHANGED <<reader_count, holdsRead, msg>>
    /\ UNCHANGED <<kind, ru_val, inner, op, ctrVars, violations, instVars, resolverVars>>

\* write, from the return of inner.lock() on.
write(t) ==
    /\ pc[t] = "write_wait"
    /\ try_lock(t)
    /\ IF write_held
       THEN \* lock(); unlock(); panic!
            /\ UNCHANGED <<lockVars, holdVars>>
            /\ Panic(t, MsgWriteAfterWrite)
            /\ UNCHANGED ret
       ELSE /\ lock(t)
            /\ write_held' = TRUE
            /\ holdsWrite' = [holdsWrite EXCEPT ![t] = TRUE]
            /\ Return(t, "none")
            /\ UNCHANGED <<reader_count, holdsRead, msg>>
    /\ UNCHANGED <<kind, ru_val, inner, op, ctrVars, violations, instVars, resolverVars>>

\* Mutant of try_write: the test of reader_count is missing, as in write.
try_write_no_readers_test(t) ==
    /\ pc[t] = "idle"
    /\ tmp[t] = -1
    /\ cs_depth < DepthCap
    /\ op' = [op EXCEPT ![t] = "try_write"]
    /\ IF ~try_lock(t)
       THEN /\ Return(t, "false")
            /\ UNCHANGED <<lockVars, holdVars>>
       ELSE IF write_held
       THEN /\ Return(t, "false")
            /\ UNCHANGED <<lockVars, holdVars>>
       ELSE /\ lock(t)
            /\ write_held' = TRUE
            /\ holdsWrite' = [holdsWrite EXCEPT ![t] = TRUE]
            /\ Return(t, "true")
            /\ UNCHANGED <<reader_count, holdsRead>>
    /\ UNCHANGED <<kind, ru_val, inner, msg, ctrVars, violations, instVars, resolverVars>>

\* Mutant of try_write: a failed try_lock answers true.
try_write_true_on_busy(t) ==
    /\ pc[t] = "idle"
    /\ tmp[t] = -1
    /\ cs_depth < DepthCap
    /\ op' = [op EXCEPT ![t] = "try_write"]
    /\ IF ~try_lock(t)
       THEN /\ Return(t, "true")
            /\ holdsWrite' = [holdsWrite EXCEPT ![t] = TRUE]
            /\ UNCHANGED <<lockVars, holdsRead>>
       ELSE IF write_held \/ reader_count > 0
       THEN /\ Return(t, "false")
            /\ UNCHANGED <<lockVars, holdVars>>
       ELSE /\ lock(t)
            /\ write_held' = TRUE
            /\ holdsWrite' = [holdsWrite EXCEPT ![t] = TRUE]
            /\ Return(t, "true")
            /\ UNCHANGED <<reader_count, holdsRead>>
    /\ UNCHANGED <<kind, ru_val, inner, msg, ctrVars, violations, instVars, resolverVars>>

try_write(t) ==
    /\ pc[t] = "idle"
    /\ tmp[t] = -1
    /\ cs_depth < DepthCap
    /\ op' = [op EXCEPT ![t] = "try_write"]
    /\ IF ~try_lock(t)
       THEN /\ Return(t, "false")
            /\ UNCHANGED <<lockVars, holdVars>>
       ELSE IF write_held \/ reader_count > 0
       THEN \* try_lock(); unlock(); false
            /\ Return(t, "false")
            /\ UNCHANGED <<lockVars, holdVars>>
       ELSE /\ lock(t)
            /\ write_held' = TRUE
            /\ holdsWrite' = [holdsWrite EXCEPT ![t] = TRUE]
            /\ Return(t, "true")
            /\ UNCHANGED <<reader_count, holdsRead>>
    /\ UNCHANGED <<kind, ru_val, inner, msg, ctrVars, violations, instVars, resolverVars>>

read_unlock(t) ==
    /\ pc[t] = "idle"
    /\ op' = [op EXCEPT ![t] = "read_unlock"]
    /\ IF reader_count = 0
       THEN /\ unlock(t)
            /\ Panic(t, MsgNoReaders)
            /\ UNCHANGED <<reader_count, write_held, holdVars, ret>>
       ELSE /\ reader_count' = reader_count - 1
            /\ unlock(t)
            /\ holdsRead' = [holdsRead EXCEPT ![t] = IF @ > 0 THEN @ - 1 ELSE 0]
            /\ Return(t, "none")
            /\ UNCHANGED <<write_held, holdsWrite, msg>>
    /\ UNCHANGED <<kind, ru_val, inner, ctrVars>>

\* Mutant of write_unlock: write_held is cleared but the inner mutex is not
\* released.
write_unlock_keeps_gate(t) ==
    /\ pc[t] = "idle"
    /\ tmp[t] = -1
    /\ op' = [op EXCEPT ![t] = "write_unlock"]
    /\ IF ~write_held
       THEN /\ unlock(t)
            /\ Panic(t, MsgNoWriter)
            /\ UNCHANGED <<reader_count, write_held, holdVars, ret>>
       ELSE /\ write_held' = FALSE
            /\ UNCHANGED <<cs_owner, cs_depth>>
            /\ holdsWrite' = [holdsWrite EXCEPT ![t] = FALSE]
            /\ Return(t, "none")
            /\ UNCHANGED <<reader_count, holdsRead, msg>>
    /\ UNCHANGED <<kind, ru_val, inner, ctrVars>>

\* Mutant of write_unlock: the test of write_held is missing.
write_unlock_unchecked(t) ==
    /\ pc[t] = "idle"
    /\ tmp[t] = -1
    /\ op' = [op EXCEPT ![t] = "write_unlock"]
    /\ write_held' = FALSE
    /\ unlock(t)
    /\ holdsWrite' = [holdsWrite EXCEPT ![t] = FALSE]
    /\ Return(t, "none")
    /\ UNCHANGED <<reader_count, holdsRead, msg>>
    /\ UNCHANGED <<kind, ru_val, inner, ctrVars>>

write_unlock(t) ==
    /\ pc[t] = "idle"
    /\ tmp[t] = -1
    /\ op' = [op EXCEPT ![t] = "write_unlock"]
    /\ IF ~write_held
       THEN /\ unlock(t)
            /\ Panic(t, MsgNoWriter)
            /\ UNCHANGED <<reader_count, write_held, holdVars, ret>>
       ELSE /\ write_held' = FALSE
            /\ unlock(t)
            /\ holdsWrite' = [holdsWrite EXCEPT ![t] = FALSE]
            /\ Return(t, "none")
            /\ UNCHANGED <<reader_count, holdsRead, msg>>
    /\ UNCHANGED <<kind, ru_val, inner, ctrVars>>

\* read_unlock and write_unlock take no lock before they touch the fields, so
\* each of them is also given field access by field access: the load that is
\* tested, the store, and inner.unlock().

\* read_unlock, `*self.reader_count.get() == 0`: zero goes to unlock and panic.
read_unlock_load(t) ==
    /\ pc[t] = "idle"
    /\ op' = [op EXCEPT ![t] = "read_unlock"]
    /\ IF reader_count = 0
       THEN /\ unlock(t)
            /\ Panic(t, MsgNoReaders)
            /\ UNCHANGED <<ru_val, ret>>
       ELSE /\ ru_val' = [ru_val EXCEPT ![t] = reader_count]
            /\ pc' = [pc EXCEPT ![t] = "read_unlock_store"]
            /\ ret' = [ret EXCEPT ![t] = "none"]
            /\ UNCHANGED <<cs_owner, cs_depth, msg>>
    /\ UNCHANGED <<kind, inner, reader_count, write_held, holdVars, ctrVars, violations, instVars, resolverVars>>

\* read_unlock, the store of `*self.reader_count.get() -= 1`.
read_unlock_store(t) ==
    /\ pc[t] = "read_unlock_store"
    /\ reader_count' = ru_val[t] - 1
    /\ holdsRead' = [holdsRead EXCEPT ![t] = IF @ > 0 THEN @ - 1 ELSE 0]
    /\ ru_val' = [ru_val EXCEPT ![t] = 0]
    /\ pc' = [pc EXCEPT ![t] = "read_unlock_leave"]
    /\ UNCHANGED <<kind, inner, cs_owner, cs_depth, write_held, holdsWrite, op, ret, msg>>
    /\ UNCHANGED <<ctrVars, violations, instVars, resolverVars>>

\* read_unlock, the closing self.inner.unlock().
read_unlock_leave(t) ==
    /\ pc[t] = "read_unlock_leave"
    /\ unlock(t)
    /\ Return(t, "none")
    /\ UNCHANGED <<kind, ru_val, inner, reader_count, write_held, op, msg, holdVars>>
    /\ UNCHANGED <<ctrVars, violations, instVars, resolverVars>>

\* write_unlock, `!*self.write_held.get()`: false goes to unlock and panic.
write_unlock_load(t) ==
    /\ pc[t] = "idle"
    /\ tmp[t] = -1
    /\ op' = [op EXCEPT ![t] = "write_unlock"]
    /\ IF ~write_held
       THEN /\ unlock(t)
            /\ Panic(t, MsgNoWriter)
            /\ UNCHANGED ret
       ELSE /\ pc' = [pc EXCEPT ![t] = "write_unlock_store"]
            /\ ret' = [ret EXCEPT ![t] = "none"]
            /\ UNCHANGED <<cs_owner, cs_depth, msg>>
    /\ UNCHANGED <<kind, ru_val, inner, reader_count, write_held, holdVars, ctrVars, violations, instVars, resolverVars>>

\* write_unlock, `*self.write_held.get() = false`.
write_unlock_store(t) ==
    /\ pc[t] = "write_unlock_store"
    /\ write_held' = FALSE
    /\ holdsWrite' = [holdsWrite EXCEPT ![t] = FALSE]
    /\ pc' = [pc EXCEPT ![t] = "write_unlock_leave"]
    /\ UNCHANGED <<kind, ru_val, inner, cs_owner, cs_depth, reader_count, holdsRead, op, ret, msg>>
    /\ UNCHANGED <<ctrVars, violations, instVars, resolverVars>>

\* write_unlock, the closing self.inner.unlock().
write_unlock_leave(t) ==
    /\ pc[t] = "write_unlock_leave"
    /\ unlock(t)
    /\ Return(t, "none")
    /\ UNCHANGED <<kind, ru_val, inner, reader_count, write_held, op, msg, holdVars>>
    /\ UNCHANGED <<ctrVars, violations, instVars, resolverVars>>

\* ------------------------------------------------------- RWLock (rwlock.rs)

\* Kind::SRWLock arm of RWLock::write: AcquireSRWLockExclusive returns once
\* the state word is idle, and marks it held.
AcquireSRWLockExclusive(t) ==
    /\ pc[t] = "write_wait"
    /\ inner = SRWLOCK_INIT
    /\ inner' = SrwExclusive
    /\ holdsWrite' = [holdsWrite EXCEPT ![t] = TRUE]
    /\ Return(t, "none")
    /\ UNCHANGED <<kind, ru_val, lockVars, op, msg, holdsRead, ctrVars, violations, instVars, resolverVars>>

\* Mutant of the SRWLock arm of RWLock::try_write: the test of the result is
\* inverted (== 0 for != 0).
TryAcquireSRWLockExclusive_inverted(t) ==
    /\ pc[t] = "idle"
    /\ tmp[t] = -1
    /\ op' = [op EXCEPT ![t] = "try_write"]
    /\ IF inner = SRWLOCK_INIT
       THEN /\ inner' = SrwExclusive
            /\ Return(t, "false")
            /\ UNCHANGED holdsWrite
       ELSE /\ holdsWrite' = [holdsWrite EXCEPT ![t] = TRUE]
            /\ Return(t, "true")
            /\ UNCHANGED inner
    /\ UNCHANGED <<kind, ru_val, lockVars, msg, holdsRead, ctrVars, violations, instVars, resolverVars>>

\* Kind::SRWLock arm of RWLock::try_write: TryAcquireSRWLockExclusive(..) != 0.
TryAcquireSRWLockExclusive(t) ==
    /\ pc[t] = "idle"
    /\ tmp[t] = -1
    /\ op' = [op EXCEPT ![t] = "try_write"]
    /\ IF inner = SRWLOCK_INIT
       THEN /\ inner' = SrwExclusive
            /\ holdsWrite' = [holdsWrite EXCEPT ![t] = TRUE]
            /\ Return(t, "true")
       ELSE /\ Return(t, "false")
            /\ UNCHANGED <<inner, holdsWrite>>
    /\ UNCHANGED <<kind, ru_val, lockVars, msg, holdsRead, ctrVars, violations, instVars, resolverVars>>

\* Mutant of the SRWLock arm of RWLock::write_unlock: the state word is left
\* as it was.
ReleaseSRWLockExclusive_lost(t) ==
    /\ pc[t] = "idle"
    /\ tmp[t] = -1
    /\ op' = [op EXCEPT ![t] = "write_unlock"]
    /\ UNCHANGED inner
    /\ holdsWrite' = [holdsWrite EXCEPT ![t] = FALSE]
    /\ Return(t, "none")
    /\ UNCHANGED <<kind, ru_val, lockVars, msg, holdsRead, ctrVars, violations, instVars, resolverVars>>

\* Kind::SRWLock arm of RWLock::write_unlock: ReleaseSRWLockExclusive.
ReleaseSRWLockExclusive(t) ==
    /\ pc[t] = "idle"
    /\ tmp[t] = -1
    /\ op' = [op EXCEPT ![t] = "write_unlock"]
    /\ inner' = SRWLOCK_INIT
    /\ holdsWrite' = [holdsWrite EXCEPT ![t] = FALSE]
    /\ Return(t, "none")
    /\ UNCHANGED <<kind, ru_val, lockVars, msg, holdsRead, ctrVars, violations, instVars, resolverVars>>

RWLock_write(t) ==
    \/ kind = "SRWLock" /\ AcquireSRWLockExclusive(t)
    \/ kind = "CriticalSection" /\ write(t)

RWLock_try_write(t) ==
    \/ kind = "SRWLock" /\ TryAcquireSRWLockExclusive(t)
    \/ kind = "CriticalSection" /\ try_write(t)

RWLock_write_unlock(t) ==
    \/ kind = "SRWLock" /\ ReleaseSRWLockExclusive(t)
    \/ kind = "CriticalSection" /\ write_unlock(t) /\ UNCHANGED <<violations, instVars, resolverVars>>

\* RWLock::rerwlock, the load of the state cell: a non-zero cell is the block.
rerwlock_load(t) ==
    /\ rr_pc[t] = "idle"
    /\ rr_calls[t] < MaxCalls
    /\ rr_calls' = [rr_calls EXCEPT ![t] = @ + 1]
    /\ IF inner # SRWLOCK_INIT
       THEN /\ rr_ret' = [rr_ret EXCEPT ![t] = inner]
            /\ UNCHANGED rr_pc
       ELSE /\ rr_pc' = [rr_pc EXCEPT ![t] = "alloc"]
            /\ rr_ret' = [rr_ret EXCEPT ![t] = 0]
    /\ UNCHANGED <<kind, ru_val, inner, lockVars, callVars, holdVars, ctrVars, violations, heap, rr_m, resolverVars>>

\* box ReentrantRWLock::uninitialized(), init(), Box::into_raw: the allocator
\* hands out any address that is not in use.
rerwlock_box(t) ==
    /\ rr_pc[t] = "alloc"
    /\ \E b \in Blocks :
        /\ heap[b] # "live"
        /\ heap' = [heap EXCEPT ![b] = "live"]
        /\ rr_m' = [rr_m EXCEPT ![t] = b]
    /\ rr_pc' = [rr_pc EXCEPT ![t] = "cas"]
    /\ UNCHANGED <<kind, ru_val, inner, lockVars, callVars, holdVars, ctrVars, violations, rr_ret, rr_calls, resolverVars>>

\* Mutant of the install: a plain store of m in place of compare_exchange(0, m).
rerwlock_store(t) ==
    /\ rr_pc[t] = "cas"
    /\ inner' = rr_m[t]
    /\ rr_ret' = [rr_ret EXCEPT ![t] = rr_m[t]]
    /\ rr_m' = [rr_m EXCEPT ![t] = 0]
    /\ rr_pc' = [rr_pc EXCEPT ![t] = "idle"]
    /\ UNCHANGED <<kind, ru_val, lockVars, callVars, holdVars, ctrVars, violations, heap, rr_calls, resolverVars>>

\* compare_exchange(0, m): Ok keeps m in the cell; Err(n) destroys and frees m
\* and returns n.
rerwlock_cas(t) ==
    /\ rr_pc[t] = "cas"
    /\ IF inner = SRWLOCK_INIT
       THEN /\ inner' = rr_m[t]
            /\ rr_ret' = [rr_ret EXCEPT ![t] = rr_m[t]]
            /\ UNCHANGED heap
       ELSE /\ heap' = [heap EXCEPT ![rr_m[t]] = "freed"]
            /\ rr_ret' = [rr_ret EXCEPT ![t] = inner]
            /\ UNCHANGED inner
    /\ rr_m' = [rr_m EXCEPT ![t] = 0]
    /\ rr_pc' = [rr_pc EXCEPT ![t] = "idle"]
    /\ UNCHANGED <<kind, ru_val, lockVars, callVars, holdVars, ctrVars, violations, rr_calls, resolverVars>>

\* ---------------------------------------------------------- Mutex (mutex.rs)

\* A thread calls Mutex::lock: it is now inside RWLock::write.
Mutex_lock_call(t) == write_call(t)

\* Mutex::lock returns.
Mutex_lock(t) == RWLock_write(t)

Mutex_try_lock(t) == RWLock_try_write(t)

\* Mutex::unlock, by the thread that holds the mutex.
Mutex_unlock(t) == holdsWrite[t] /\ RWLock_write_unlock(t)

\* The critical section of the counter scenario: counter += 1 as a load and a
\* store, by the thread that holds the mutex.
IncLoad(t) ==
    /\ pc[t] = "idle"
    /\ holdsWrite[t]
    /\ tmp[t] = -1
    /\ done[t] < MaxIncs
    /\ tmp' = [tmp EXCEPT ![t] = counter]
    /\ UNCHANGED <<kind, ru_val, inner, lockVars, callVars, holdVars, counter, done, violations, instVars, resolverVars>>

IncStore(t) ==
    /\ pc[t] = "idle"
    /\ tmp[t] # -1
    /\ counter' = tmp[t] + 1
    /\ tmp' = [tmp EXCEPT ![t] = -1]
    /\ done' = [done EXCEPT ![t] = @ + 1]
    /\ UNCHANGED <<kind, ru_val, inner, lockVars, callVars, holdVars, violations, instVars, resolverVars>>

\* The callers of the contract: they release only what they hold.
ReadUnlockHeld(t) ==
    /\ holdsRead[t] > 0
    /\ read_unlock(t)
    /\ UNCHANGED <<violations, instVars, resolverVars>>

WriteUnlockHeld(t) ==
    /\ holdsWrite[t]
    /\ write_unlock(t)
    /\ UNCHANGED <<violations, instVars, resolverVars>>

\* Callers that break the contract: they release what they do not hold.
ReadUnlockUnheld(t) ==
    /\ holdsRead[t] = 0
    /\ violations < MaxViol
    /\ read_unlock(t)
    /\ violations' = violations + 1
    /\ UNCHANGED <<instVars, resolverVars>>

WriteUnlockUnheld(t) ==
    /\ ~holdsWrite[t]
    /\ violations < MaxViol
    /\ write_unlock(t)
    /\ violations' = violations + 1
    /\ UNCHANGED <<instVars, resolverVars>>

\* ------------------------------------------------------------ specifications

vars == <<kind, ru_val, inner, lockVars, callVars, holdVars, ctrVars, violations, instVars, resolverVars>>

\* ReentrantRWLock::uninitialized() followed by init().
LockInit ==
    /\ cs_owner = NoThread
    /\ cs_depth = 0
    /\ reader_count = 0
    /\ write_held = FALSE

CallersInit ==
    /\ pc = [t \in Threads |-> "idle"]
    /\ op = [t \in Threads |-> "none"]
    /\ ret = [t \in Threads |-> "none"]
    /\ msg = [t \in Threads |-> ""]
    /\ holdsRead = [t \in Threads |-> 0]
    /\ holdsWrite = [t \in Threads |-> FALSE]
    /\ counter = 0
    /\ tmp = [t \in Threads |-> -1]
    /\ done = [t \in Threads |-> 0]
    /\ violations = 0
    /\ ru_val = [t \in Threads |-> 0]
    /\ rr_pc = [t \in Threads |-> "idle"]
    /\ rr_m = [t \in Threads |-> 0]
    /\ rr_ret = [t \in Threads |-> 0]
    /\ rr_calls = [t \in Threads |-> 0]
    /\ PTR = [s \in Syms |-> Unresolved]
    /\ stores = [s \in Syms |-> 0]
    /\ c_pc = [t \in Threads |-> "idle"]
    /\ c_sym = [t \in Threads |-> 1]
    /\ c_addr = [t \in Threads |-> 0]
    /\ c_calls = 0
    /\ c_ran = [t \in Threads |-> "none"]
    /\ gstatic = [s \in Syms |-> TrampAddr(s)]
    /\ g_pc = [t \in Threads |-> "idle"]
    /\ g_sym = [t \in Threads |-> 1]
    /\ g_addr = [t \in Threads |-> 0]
    /\ g_i = [t \in Threads |-> 1]
    /\ g_funcs = [t \in Threads |-> [s \in Syms |-> 0]]
    /\ g_src = [t \in Threads |-> "funcs"]
    /\ g_calls = 0
    /\ g_ran = [t \in Threads |-> "none"]

\* The state cell and the heap once rerwlock has installed a control block.
Installed ==
    /\ inner = CHOOSE b \in Blocks : TRUE
    /\ heap = [b \in Blocks |-> IF b = inner THEN "live" ELSE "fresh"]

Init ==
    /\ kind = "CriticalSection"
    /\ Installed
    /\ exported = {}
    /\ LockInit
    /\ CallersInit

Next ==
    \E t \in Threads :
        \/ read_call(t)
        \/ read(t)
        \/ try_read(t)
        \/ write_call(t)
        \/ write(t)
        \/ try_write(t)
        \/ ReadUnlockHeld(t)
        \/ WriteUnlockHeld(t)

Spec == Init /\ [][Next]_vars

\* The emulated back-end with read_unlock and write_unlock taken field access
\* by field access, used by callers that only release what they hold.
NextSteps ==
    \E t \in Threads :
        \/ read_call(t)
        \/ read(t)
        \/ try_read(t)
        \/ write_call(t)
        \/ write(t)
        \/ try_write(t)
        \/ holdsRead[t] > 0 /\ read_unlock_load(t)
        \/ read_unlock_store(t)
        \/ read_unlock_leave(t)
        \/ holdsWrite[t] /\ write_unlock_load(t)
        \/ write_unlock_store(t)
        \/ write_unlock_leave(t)

SpecSteps == Init /\ [][NextSteps]_vars

\* The threads of the runs in which the contract is broken.
ViolThreads == 1 .. NViolThreads

NextViol ==
    \E t \in ViolThreads :
        \/ read_call(t)
        \/ read(t)
        \/ try_read(t)
        \/ write_call(t)
        \/ write(t)
        \/ try_write(t)
        \/ ReadUnlockHeld(t)
        \/ WriteUnlockHeld(t)
        \/ ReadUnlockUnheld(t)
        \/ WriteUnlockUnheld(t)

SpecViol == Init /\ [][NextViol]_vars

\* A mutex of either back-end: a fresh SRW lock, or an emulated one whose
\* control block is installed.
InitMutex ==
    /\ kind \in {"SRWLock", "CriticalSection"}
    /\ IF kind = "SRWLock"
       THEN inner = SRWLOCK_INIT /\ heap = [b \in Blocks |-> "fresh"]
       ELSE Installed
    /\ exported = {}
    /\ LockInit
    /\ CallersInit

NextMutex ==
    \E t \in Threads :
        \/ Mutex_lock_call(t)
        \/ Mutex_lock(t)
        \/ Mutex_try_lock(t)
        \/ Mutex_unlock(t)
        \/ IncLoad(t)
        \/ IncStore(t)

SpecMutex == InitMutex /\ [][NextMutex]_vars

\* A mutex of either back-end used by threads that lock, try_lock and unlock
\* in pairs and do not lock again what they hold. The OS lets a waiter in
\* once the lock stays free, and a holder always comes to its unlock.
NextLive ==
    \E t \in Threads :
        \/ ~holdsWrite[t] /\ Mutex_lock_call(t)
        \/ Mutex_lock(t)
        \/ Mutex_try_lock(t)
        \/ Mutex_unlock(t)

FairLive ==
    \A t \in Threads :
        /\ WF_vars(Mutex_lock(t))
        /\ WF_vars(Mutex_unlock(t))

SpecLive == InitMutex /\ [][NextLive]_vars /\ FairLive

\* A freshly constructed RWLock (RWLock::new) on a system without SRW locks.
InitInstall ==
    /\ kind = "CriticalSection"
    /\ inner = SRWLOCK_INIT
    /\ heap = [b \in Blocks |-> "fresh"]
    /\ exported = {}
    /\ LockInit
    /\ CallersInit

NextInstall ==
    \E t \in Threads :
        \/ rerwlock_load(t)
        \/ rerwlock_box(t)
        \/ rerwlock_cas(t)

SpecInstall == InitInstall /\ [][NextInstall]_vars

\* A process whose module exports any subset of the wrapped symbols; every
\* slot is still zero.
InitCompat ==
    /\ kind = "CriticalSection"
    /\ inner = SRWLOCK_INIT
    /\ heap = [b \in Blocks |-> "fresh"]
    /\ exported \in SUBSET Syms
    /\ LockInit
    /\ CallersInit

NextCompat ==
    \E t \in Callers :
        \/ \E s \in Syms : compat_fn_load(t, s)
        \/ store_func(t)
        \/ compat_fn_call(t)

SpecCompat == InitCompat /\ [][NextCompat]_vars

NextGroup ==
    \E t \in Callers :
        \/ \E s \in Syms : group_call(t, s)
        \/ group_invoke(t)
        \/ gload_lookup(t)
        \/ store_funcs(t)
        \/ group_redispatch(t)

SpecGroup == InitCompat /\ [][NextGroup]_vars

\* ===================================================================== claims

\* C1: in the emulated back-end it is never the case that the reader count is
\* greater than zero while the write-held flag is set.
C1_NoReadersWithWriter == ~(reader_count > 0 /\ write_held)

RECURSIVE SumDone(_)
SumDone(n) == IF n = 0 THEN 0 ELSE done[n] + SumDone(n - 1)

\* C2: at most one thread is between the return of lock (or a true try-lock)
\* and its unlock, only that thread is in the middle of an increment, and the
\* counter equals the number of increments made, in both back-ends.
C2_MutexExclusion ==
    /\ Cardinality({t \in Threads : holdsWrite[t]}) <= 1
    /\ \A t \in Threads : tmp[t] # -1 => holdsWrite[t]
    /\ counter = SumDone(NThreads)

\* Every thread made all its increments under the emulated back-end, and at
\* least one of them got the mutex by try-lock.
C2_Witness ==
    /\ kind = "CriticalSection"
    /\ counter = NThreads * MaxIncs
    /\ \E t \in Threads : op[t] = "write_unlock" /\ done[t] = MaxIncs

\* C3: a reader never has to wait for another reader: a thread inside read,
\* while another thread holds a read lock and nobody holds the write lock, can
\* return from read.
C3_ReadersCoexist ==
    \A t \in Threads :
        (/\ pc[t] = "read_wait"
         /\ ~write_held
         /\ \E u \in Threads \ {t} : holdsRead[u] > 0)
        => ENABLED read(t)

\* The blocks that are allocated and not freed.
LiveBlocks == {b \in Blocks : heap[b] = "live"}

C4_Inv ==
    \* a live block is the one in the cell or one whose allocator has not returned
    /\ \A b \in LiveBlocks :
          b = inner \/ \E t \in Threads : rr_pc[t] = "cas" /\ rr_m[t] = b
    \* every caller returned the block the cell retains
    /\ \A t \in Threads :
          rr_ret[t] # 0 => rr_ret[t] = inner /\ heap[inner] = "live"
    \* once every caller has returned, exactly one block is retained
    /\ ((\A t \in Threads : rr_pc[t] = "idle") /\ (\E t \in Threads : rr_calls[t] > 0))
          => LiveBlocks = {inner}

\* C4: concurrent first use by N threads retains exactly one control block in
\* the state cell, every other block is destroyed before its allocator
\* returns, every caller returns the retained block, and the cell never
\* changes after the first install.
C4_SingleBlock ==
    /\ []C4_Inv
    /\ [][inner # SRWLOCK_INIT => inner' = inner]_vars

\* Every thread raced through first use, one block was retained, and the
\* NThreads - 1 others were allocated and freed.
C4_Witness ==
    /\ \A t \in Threads : rr_pc[t] = "idle" /\ rr_calls[t] = 1 /\ rr_ret[t] = inner
    /\ Cardinality({b \in Blocks : heap[b] = "freed"}) = NThreads - 1

\* C5: once a cache slot is non-zero it never holds another value: every
\* store writes the resolved address if the symbol is exported and the
\* fallback address otherwise, and no store resets it to zero.
C5_SlotStable ==
    [][\A s \in Syms :
        /\ PTR[s] # Unresolved => PTR'[s] = PTR[s]
        /\ PTR'[s] # PTR[s] =>
              PTR'[s] = (IF s \in exported THEN RealAddr(s) ELSE FallbackAddr(s))]_vars

\* Concurrent first callers stored to the same slot more than once.
C5_Witness == \E s \in Syms : stores[s] >= 2 /\ PTR[s] # Unresolved

\* C6: no state has one slot of the group holding a resolved entry point
\* while another slot holds a fallback.
C6_NoMixture ==
    ~ \E s1, s2 \in Syms :
        /\ Routine(gstatic[s1]) = "real"
        /\ Routine(gstatic[s2]) = "fallback"

\* Two loader runs are storing at the same time, one slot is already
\* published and another still holds its trampoline.
C6_Witness ==
    /\ \E t1, t2 \in Callers : t1 # t2 /\ g_pc[t1] = "store" /\ g_pc[t2] = "store"
    /\ \E s1, s2 \in Syms :
        /\ Routine(gstatic[s1]) # "trampoline"
        /\ Routine(gstatic[s2]) = "trampoline"

\* C7: try_write on a lock whose reader count is greater than zero returns
\* false at once and leaves write_held as it was, whoever holds the reads.
C7_TryWriteWithReaders ==
    [][\A t \in Threads :
        (try_write(t) /\ reader_count > 0)
        => /\ pc'[t] = "idle"
           /\ ret'[t] = "false"
           /\ write_held' = write_held
           /\ holdsWrite' = holdsWrite]_vars

\* A thread that holds all the read locks there are called try_write last and
\* got false.
C7_Witness ==
    \E t \in Threads :
        /\ op[t] = "try_write" /\ pc[t] = "idle" /\ ret[t] = "false"
        /\ holdsRead[t] > 0
        /\ reader_count = holdsRead[t]
        /\ ~write_held

\* C8: try_read on a lock whose write lock is held returns false at once and
\* leaves the reader count as it was, whoever holds the write lock.
C8_TryReadWithWriter ==
    [][\A t \in Threads :
        (try_read(t) /\ write_held)
        => /\ pc'[t] = "idle"
           /\ ret'[t] = "false"
           /\ reader_count' = reader_count
           /\ holdsRead' = holdsRead]_vars

\* The thread that holds the write lock called try_read last and got false.
C8_Witness ==
    \E t \in Threads :
        /\ op[t] = "try_read" /\ pc[t] = "idle" /\ ret[t] = "false"
        /\ holdsWrite[t]
        /\ write_held

\* C9: try_write / Mutex::try_lock returns false at once whenever another
\* thread holds the write lock and has not yet called write_unlock, and takes
\* nothing.
C9_TryWriteWhileHeld ==
    [][\A t \in Threads :
        (Mutex_try_lock(t) /\ \E u \in Threads \ {t} : holdsWrite[u])
        => /\ pc'[t] = "idle"
           /\ ret'[t] = "false"
           /\ holdsWrite' = holdsWrite]_vars

\* A has held the lock and released it, B holds it now, and C, which never
\* held it, called try_lock last and got false.
C9_Witness ==
    \E a, b, c \in Threads :
        /\ a # b /\ b # c /\ a # c
        /\ op[a] = "write_unlock" /\ ~holdsWrite[a] /\ pc[a] = "idle"
        /\ holdsWrite[b] /\ op[b] = "write"
        /\ op[c] = "try_write" /\ ret[c] = "false" /\ ~holdsWrite[c]

\* C10: write_unlock on a lock whose write_held is false panics with "tried to
\* unlock write lock with no writer" and read_unlock on a lock whose reader
\* count is zero panics; neither returns, lowers the reader count or changes
\* write_held, and a panicked call never returns.
C10_UnlockViolation ==
    /\ [](reader_count >= 0)
    /\ [][\A t \in Threads :
            /\ (write_unlock(t) /\ ~write_held)
               => /\ pc'[t] = "panicked"
                  /\ msg'[t] = "tried to unlock write lock with no writer"
                  /\ write_held' = write_held
                  /\ reader_count' = reader_count
            /\ (read_unlock(t) /\ reader_count = 0)
               => /\ pc'[t] = "panicked"
                  /\ msg'[t] = "tried to unlock reader lock with no readers"
                  /\ write_held' = write_held
                  /\ reader_count' = reader_count
            /\ pc[t] = "panicked" => pc'[t] = "panicked"]_vars

\* A thread released a write lock nobody held and panicked with the
\* diagnostic.
C10_Witness ==
    \E t \in Threads :
        /\ pc[t] = "panicked"
        /\ msg[t] = MsgNoWriter
        /\ ~holdsWrite[t]
        /\ ~write_held
        /\ reader_count = 0

\* A thread that holds the mutex is inside a second Mutex::lock.
Relocking(t) == holdsWrite[t] /\ pc[t] = "write_wait"

\* C11: the mutex is not recursive. A thread that holds it and calls lock
\* again never returns from that call: under the native back-end the call
\* stays blocked whatever the other threads do, under the emulated back-end
\* it is not blocked and panics with the diagnostic, leaving the lock as it
\* was; a try_lock by the holder returns false and takes nothing.
C11_NonRecursive ==
    /\ [](\A t \in Threads :
            Relocking(t) =>
                IF kind = "SRWLock" THEN ~ENABLED Mutex_lock(t) ELSE ENABLED Mutex_lock(t))
    /\ [][\A t \in Threads :
            /\ (Relocking(t) /\ kind = "SRWLock") => Relocking(t)'
            /\ (Relocking(t) /\ Mutex_lock(t))
               => /\ kind = "CriticalSection"
                  /\ pc'[t] = "panicked"
                  /\ msg'[t] = "tried to acquire write lock on already acquired write lock"
                  /\ UNCHANGED <<lockVars, holdVars>>
            /\ (holdsWrite[t] /\ Mutex_try_lock(t))
               => /\ pc'[t] = "idle"
                  /\ ret'[t] = "false"
                  /\ UNCHANGED <<inner, lockVars, holdVars>>]_vars

\* Under the emulated back-end a holder locked again and panicked with the
\* diagnostic, still holding the mutex once.
C11_Witness ==
    \E t \in Threads :
        /\ kind = "CriticalSection"
        /\ pc[t] = "panicked"
        /\ msg[t] = MsgWriteAfterWrite
        /\ holdsWrite[t]
        /\ cs_owner = t /\ cs_depth = 1
        /\ ret[t] = "none"

\* No thread is between a successful lock / try_lock and its unlock.
NoHolder == \A t \in Threads : ~holdsWrite[t]

\* C12: whenever every lock has been matched by its unlock the mutex is in
\* its initial state (SRW word idle; no writer, no readers, critical section
\* unowned at depth zero), a thread blocked in lock can return, and the next
\* lock or try_lock by any thread succeeds: lock returns holding the mutex,
\* try_lock returns true.
C12_RoundTrip ==
    /\ [](NoHolder =>
            /\ kind = "SRWLock" => inner = SRWLOCK_INIT
            /\ kind = "CriticalSection" => LockInit
            /\ \A t \in Threads : pc[t] = "write_wait" => ENABLED Mutex_lock(t))
    /\ [][\A t \in Threads :
            /\ (NoHolder /\ Mutex_lock(t))
               => /\ pc'[t] = "idle"
                  /\ holdsWrite'[t]
            /\ (NoHolder /\ Mutex_try_lock(t))
               => /\ pc'[t] = "idle"
                  /\ ret'[t] = "true"
                  /\ holdsWrite'[t]]_vars

\* Under the emulated back-end two threads went through all their lock /
\* unlock pairs and the control block is as init() left it.
C12_Witness ==
    /\ kind = "CriticalSection"
    /\ NoHolder
    /\ LockInit
    /\ \E a, b \in Threads :
        /\ a # b
        /\ op[a] = "write_unlock" /\ done[a] = MaxIncs
        /\ op[b] = "write_unlock" /\ done[b] = MaxIncs

\* C13: a call of the wrapper of symbol s that loads zero from the slot goes
\* through store_func, which publishes a non-zero address (the slot holds it
\* when store_func returns) and hands it to the call; a call that loads a
\* non-zero slot goes straight to the indirect call with the loaded address,
\* and only calls that loaded zero ever run store_func; the routine called is
\* the OS entry point of s when s is exported and the fallback of s when not.
C13_CallThrough ==
    [][\A t \in Callers :
        /\ \A s \in Syms :
              compat_fn_load(t, s)
              => IF PTR[s] = Unresolved
                 THEN c_pc'[t] = "load"
                 ELSE /\ c_pc'[t] = "call"
                      /\ c_addr'[t] = PTR[s]
                      /\ UNCHANGED <<PTR, stores>>
        /\ store_func(t)
           => /\ c_addr[t] = Unresolved
              /\ c_addr'[t] # Unresolved
              /\ PTR'[c_sym[t]] = c_addr'[t]
              /\ stores'[c_sym[t]] = stores[c_sym[t]] + 1
              /\ c_pc'[t] = "call"
        /\ compat_fn_call(t)
           => /\ c_addr[t] = (IF c_sym[t] \in exported
                              THEN RealAddr(c_sym[t]) ELSE FallbackAddr(c_sym[t]))
              /\ c_ran'[t] = (IF c_sym[t] \in exported THEN "real" ELSE "fallback")
              /\ c_pc'[t] = "idle"
              /\ UNCHANGED <<PTR, stores>>]_vars

\* The symbol is absent, it was called at least twice and nothing else was
\* called, every call has returned, the fallback ran, and the resolver was
\* run once.
C13_Witness ==
    \E s \in Syms :
        /\ s \notin exported
        /\ c_calls >= 2
        /\ \A t \in Callers : c_pc[t] = "idle"
        /\ \E t \in Callers : c_ran[t] = "fallback" /\ c_sym[t] = s
        /\ stores[s] = 1
        /\ PTR[s] = FallbackAddr(s)
        /\ \A s2 \in Syms \ {s} : stores[s2] = 0 /\ PTR[s2] = Unresolved

\* C14: a read that returns, and a try_read that returns true, has
\* incremented the reader count and released the inner mutex: the calling
\* thread does not own the critical section when the call has returned.
C14_ReadReleasesGate ==
    [][\A t \in Threads :
        ((read(t) \/ try_read(t)) /\ pc'[t] = "idle" /\ ret'[t] # "false")
        => /\ reader_count' = reader_count + 1
           /\ cs_owner' # t]_vars

\* The thread has tested a field in read_unlock / write_unlock and has not
\* yet stored to it.
StorePending(t) == pc[t] \in {"read_unlock_store", "write_unlock_store"}

\* C15: with callers that release only what they hold, every access to
\* reader_count and write_held is made by the thread that owns the inner
\* mutex: the load and the store of read_unlock and of write_unlock are made
\* by the owner, a thread between its load and its store is the owner, and
\* read, try_read, write and try_write get to the fields only when the mutex
\* is theirs to enter, which is never while another thread is between the
\* load and the store of an unlock.
C15_FieldsUnderGate ==
    /\ [](\A t \in Threads : StorePending(t) => cs_owner = t /\ cs_depth > 0)
    /\ [][\A t \in Threads :
            /\ (\/ read_unlock_load(t)
                \/ read_unlock_store(t)
                \/ write_unlock_load(t)
                \/ write_unlock_store(t))
               => cs_owner = t /\ cs_depth > 0
            /\ ((read(t) \/ try_read(t) \/ write(t) \/ try_write(t)) /\ try_lock(t))
               => /\ \A u \in Threads \ {t} : ~StorePending(u)
                  /\ (reader_count' # reader_count \/ write_held' # write_held)
                     => cs_owner' = t]_vars

\* A thread is between the load and the store of read_unlock while another
\* thread waits in read or write for the inner mutex.
C15_Witness ==
    \E t, u \in Threads :
        /\ t # u
        /\ pc[t] = "read_unlock_store"
        /\ ru_val[t] = reader_count
        /\ cs_owner = t
        /\ pc[u] \in {"read_wait", "write_wait"}

RECURSIVE SumHoldsRead(_)
SumHoldsRead(n) == IF n = 0 THEN 0 ELSE holdsRead[n] + SumHoldsRead(n - 1)

\* C16: with callers that release only what they hold, in every state the
\* reader count is the number of read / try_read acquisitions that no
\* read_unlock has yet matched (a read_unlock matches one when it stores),
\* and write_held is true exactly when a write / try_write acquisition has
\* not been matched by a write_unlock.
C16_CountersMatch ==
    /\ reader_count = SumHoldsRead(NThreads)
    /\ write_held <=> (\E t \in Threads : holdsWrite[t])
    /\ Cardinality({t \in Threads : holdsWrite[t]}) <= 1

\* A thread that had taken every read lock it may take has stored the lowered
\* count in read_unlock and not yet left the inner mutex, and another thread
\* waits.
C16_Witness ==
    \E t, u \in Threads :
        /\ t # u
        /\ pc[t] = "read_unlock_leave"
        /\ holdsRead[t] = MaxReads - 1
        /\ reader_count = MaxReads - 1
        /\ pc[u] \in {"read_wait", "write_wait"}

\* C17: a thread B blocked in Mutex::lock / write while another thread holds
\* the lock gets to a state where the holder has unlocked and B still waits;
\* whenever B waits and nobody holds the lock, B's call can return, and
\* eventually B holds the lock unless another thread took it first. The lock
\* is never unavailable to a waiter while nobody holds it.
C17_BlockedWriterProceeds ==
    /\ [](\A b \in Threads :
            (pc[b] = "write_wait" /\ NoHolder) => ENABLED Mutex_lock(b))
    /\ \A b \in Threads :
            (pc[b] = "write_wait" /\ \E a \in Threads \ {b} : holdsWrite[a])
            ~> (pc[b] = "write_wait" /\ NoHolder)
    /\ \A b \in Threads :
            (pc[b] = "write_wait" /\ NoHolder)
            ~> (holdsWrite[b] \/ \E c \in Threads \ {b} : holdsWrite[c])

\* A has unlocked, B, which called lock, holds the lock now, and a third
\* thread waits in lock.
C17_Witness ==
    \E a, b, c \in Threads :
        /\ a # b /\ b # c /\ a # c
        /\ op[a] = "write_unlock" /\ ~holdsWrite[a] /\ pc[a] = "idle"
        /\ op[b] = "write" /\ holdsWrite[b] /\ pc[b] = "idle"
        /\ pc[c] = "write_wait"

\* The address a group slot holds once the group is resolved: the entry point
\* if every member is exported, the member's fallback if any is missing.
GroupTarget(s) == IF Syms \subseteq exported THEN RealAddr(s) ELSE FallbackAddr(s)

Converged == \A s \in Syms : gstatic[s] = GroupTarget(s)

\* C18: a call that finds the trampoline in its slot runs the loader; when a
\* loader run returns every slot of the group holds its target, which stays so
\* whatever loader runs are still under way; the redispatch after the loader
\* loads the member's target, never the trampoline, and the call through a
\* target runs that routine and returns.
C18_GroupConverges ==
    [][/\ \A t \in Callers :
            /\ (group_invoke(t) /\ Routine(g_addr[t]) = "trampoline")
               => g_pc'[t] = "lookup"
            /\ (store_funcs(t) /\ g_pc'[t] = "redispatch")
               => Converged'
            /\ group_redispatch(t)
               => /\ g_addr'[t] = GroupTarget(g_sym[t])
                  /\ Routine(g_addr'[t]) # "trampoline"
                  /\ g_pc'[t] = "invoke"
            /\ (group_invoke(t) /\ Routine(g_addr[t]) # "trampoline")
               => /\ g_pc'[t] = "idle"
                  /\ g_ran'[t] = Routine(GroupTarget(g_sym[t]))
       /\ Converged => Converged']_vars

\* One first caller's call has returned and the group is resolved while the
\* loader run of another first caller is still in the middle of its stores.
C18_Witness ==
    \E t1, t2 \in Callers :
        /\ t1 # t2
        /\ g_pc[t1] = "idle" /\ g_ran[t1] # "none"
        /\ g_pc[t2] = "store" /\ g_i[t2] > 1
        /\ Converged

\* No thread is inside an operation on the lock.
Quiescent == \A t \in Threads : pc[t] \in {"idle", "panicked"}

\* C19: whenever no operation is in progress the critical section is owned
\* at depth reader_count + (1 if write_held), it is unowned exactly when both
\* are zero, and read_unlock and write_unlock, their failure paths included,
\* release it as its owner.
C19_GateAccounting ==
    /\ [](Quiescent =>
            /\ cs_depth = reader_count + (IF write_held THEN 1 ELSE 0)
            /\ cs_owner = NoThread <=> (reader_count = 0 /\ ~write_held))
    /\ [][\A t \in Threads :
            (read_unlock(t) \/ write_unlock(t)) => cs_owner = t /\ cs_depth > 0]_vars

\* C20: a try_read or try_write that returns false, a read that panics
\* because write_held is set and a write that panics because write_held is
\* set leave reader_count, write_held and the owner and depth of the
\* critical section as they were before the call, and give the caller no
\* lock.
C20_FailedAcquireFrame ==
    [][\A t \in Threads :
        /\ ((try_read(t) \/ try_write(t)) /\ ret'[t] = "false")
           => UNCHANGED <<reader_count, write_held, cs_owner, cs_depth, holdVars>>
        /\ ((read(t) \/ write(t)) /\ write_held)
           => /\ pc'[t] = "panicked"
              /\ UNCHANGED <<reader_count, write_held, cs_owner, cs_depth, holdVars>>]_vars

\* The writer called read and panicked, another thread's try_write returned
\* false, and the lock is as the writer's write left it.
C20_Witness ==
    \E t, u \in Threads :
        /\ t # u
        /\ pc[t] = "panicked" /\ msg[t] = MsgReadAfterWrite
        /\ holdsWrite[t] /\ write_held
        /\ cs_owner = t /\ cs_depth = 1 /\ reader_count = 0
        /\ op[u] = "try_write" /\ ret[u] = "false" /\ ~holdsWrite[u]

====
